---------------------------- MODULE Spec2Model ----------------------------
(***************************************************************************)
(* A model of pysvcmetrics: the statsd client (statsdclient.py) and the    *)
(* process-wide metrics facade (metrics.py).                               *)
(*                                                                         *)
(* Representation of Python values                                         *)
(*   - str            : a TLA+ string                                      *)
(*   - None           : the string NoneV (falsy, like "")                  *)
(*   - a metric value : a record Val (an int, a whole-number float or a    *)
(*                      str), stringified by PyStr as "{0}".format does    *)
(*   - keys argument  : a record Keys, either one bare str or a list/tuple *)
(*   - dict           : a sequence of <<key, value>> pairs with distinct   *)
(*                      keys, in insertion order (the order items() has    *)
(*                      since Python 3.7; no property below depends on it) *)
(*   - a rate / a draw of random() : an integer number of hundredths, so   *)
(*                      that the number 1 is One                           *)
(*   - a call's effect: a record Eff: whether it raised, the error, the    *)
(*                      returned value and the events it caused, in order  *)
(*                      (calls of the wrapped function, datagrams handed   *)
(*                      to sendto)                                         *)
(***************************************************************************)
EXTENDS Integers, Sequences, FiniteSets, TLC

(***************************************************************************)
(* Bounds of the model                                                     *)
(***************************************************************************)
\* longest list of keys passed to one call
MaxKeys == 2

(***************************************************************************)
(* Python values                                                           *)
(***************************************************************************)
NoneV == "<None>"

\* Python truthiness of a str-or-None
Truthy(s) == s # NoneV /\ s # ""

IntV(n)   == [kind |-> "int",   num |-> n, str |-> ""]
FloatV(n) == [kind |-> "float", num |-> n, str |-> ""]
StrV(s)   == [kind |-> "str",   num |-> 0, str |-> s]

\* "{0}".format(value)
PyStr(v) ==
    CASE v.kind = "int"   -> ToString(v.num)
      [] v.kind = "float" -> ToString(v.num) \o ".0"
      [] OTHER            -> v.str

\* the number 1, in hundredths: rates and draws are multiples of 1/One
One == 100

\* digits of a fraction f/One, 0 < f < One, without trailing zeros
FracStr(f) ==
    IF f % 10 = 0 THEN ToString(f \div 10)
    ELSE IF f < 10 THEN "0" \o ToString(f)
    ELSE ToString(f)

\* "{1}".format(sample_rate): an int for a whole rate, else the float
RateStr(r) ==
    LET a == IF r < 0 THEN -r ELSE r
        s == IF r < 0 THEN "-" ELSE ""
    IN  IF a % One = 0 THEN s \o ToString(a \div One)
        ELSE s \o ToString(a \div One) \o "." \o FracStr(a % One)

Str(k)   == [isstr |-> TRUE,  str |-> k,  items |-> <<>>]
List(ks) == [isstr |-> FALSE, str |-> "", items |-> ks]

\* isinstance(keys, (list, tuple))
IsListOrTuple(keys) == ~keys.isstr

(***************************************************************************)
(* dict                                                                    *)
(***************************************************************************)
DictKeys(d) == {d[i][1] : i \in 1..Len(d)}

DictGet(d, k) == LET i == CHOOSE j \in 1..Len(d) : d[j][1] = k IN d[i][2]

\* mutant of DictSet: a list of pairs, appended to without a lookup
DictSet_append(d, k, v) == Append(d, <<k, v>>)

\* d[k] = v
DictSet(d, k, v) ==
    IF k \in DictKeys(d)
    THEN [i \in 1..Len(d) |-> IF d[i][1] = k THEN <<k, v>> ELSE d[i]]
    ELSE Append(d, <<k, v>>)

IsDict(d) == \A i, j \in 1..Len(d) : d[i][1] = d[j][1] => i = j

(***************************************************************************)
(* statsdclient.py                                                         *)
(***************************************************************************)
SC_TIMING == "ms"
SC_COUNT  == "c"
SC_GAUGE  == "g"
SC_SET    == "s"

\* mutant of StatsdClient: the prefix is kept as given, without the "."
StatsdClient_nodot(host, port, prefix) ==
    [kind   |-> "statsd",
     addr   |-> <<host, port>>,
     prefix |-> IF Truthy(prefix) THEN prefix ELSE ""]

\* StatsdClient.__init__
StatsdClient(host, port, prefix) ==
    [kind   |-> "statsd",
     addr   |-> <<host, port>>,
     prefix |-> IF Truthy(prefix) THEN prefix \o "." ELSE ""]

RECURSIVE formatLoop(_, _, _, _)
formatLoop(data, keys, value, prefix) ==
    IF keys = <<>> THEN data
    ELSE formatLoop(DictSet(data, prefix \o Head(keys), value),
                    Tail(keys), value, prefix)

\* StatsdClient.format
format(keys, value, type, prefix) ==
    LET v  == PyStr(value) \o "|" \o type
        ks == IF ~IsListOrTuple(keys) THEN <<keys.str>> ELSE keys.items
    IN  formatLoop(<<>>, ks, v, prefix)

\* mutant of sample: random() < sample_rate
sample_lt(data, sample_rate, draw) ==
    IF sample_rate >= One THEN data
    ELSE IF draw < sample_rate
         THEN [i \in 1..Len(data) |->
                  <<data[i][1], data[i][2] \o "|@" \o RateStr(sample_rate)>>]
         ELSE <<>>

\* mutant of sample: sample_rate > 1
sample_gt(data, sample_rate, draw) ==
    IF sample_rate > One THEN data
    ELSE IF draw <= sample_rate
         THEN [i \in 1..Len(data) |->
                  <<data[i][1], data[i][2] \o "|@" \o RateStr(sample_rate)>>]
         ELSE <<>>

\* StatsdClient.sample; draw is the value random() returns if it is called
sample(data, sample_rate, draw) ==
    IF sample_rate >= One THEN data
    ELSE IF draw <= sample_rate
         THEN [i \in 1..Len(data) |->
                  <<data[i][1], data[i][2] \o "|@" \o RateStr(sample_rate)>>]
         ELSE <<>>


(***************************************************************************)
(* The environment of one call: what random() returns if it is called, how *)
(* the network behaves (socket() raising, or the n-th sendto raising;      *)
(* sendto_fails_at = 0 for "no sendto raises") and what time.time() reads  *)
(* when the call starts, in ms.                                            *)
(***************************************************************************)
Net(sock, n) == [socket_fails |-> sock, sendto_fails_at |-> n]
NetOK == Net(FALSE, 0)
Env(draw, net, clock) == [draw |-> draw, net |-> net, clock |-> clock]

NoAddr == <<"", 0>>
SendtoEv(payload, addr) == [kind |-> "sendto", text |-> payload, addr |-> addr]
CallEv(func, arg) ==
    [kind |-> "call", text |-> func.name \o "(" \o arg \o ")", addr |-> NoAddr]

\* a call that returned ret / that raised error, having caused events
Returned(ret, events) ==
    [raised |-> FALSE, error |-> "", ret |-> ret, events |-> events]
Raised(error, events) ==
    [raised |-> TRUE, error |-> error, ret |-> NoneV, events |-> events]

RECURSIVE sendLoop(_, _, _, _, _)
sendLoop(items, i, addr, net, events) ==
    IF i > Len(items) THEN Returned(NoneV, events)
    ELSE IF net.sendto_fails_at = i THEN Raised("socket.error", events)
    ELSE sendLoop(items, i + 1, addr, net,
                  Append(events,
                         SendtoEv(items[i][1] \o ":" \o items[i][2], addr)))

\* StatsdClient.send: nothing catches what socket() or sendto raise
send(dict, addr, net) ==
    IF net.socket_fails THEN Raised("socket.error", <<>>)
    ELSE sendLoop(dict, 1, addr, net, <<>>)

\* StatsdClient.update_stats
update_stats(self, stats, value, type, sample_rate, env) ==
    LET formatted == format(stats, value, type, self.prefix)
    IN  send(sample(formatted, sample_rate, env.draw), self.addr, env.net)

\* StatsdClient.timing / gauge / set: update_stats' default sample_rate=1
StatsdClient_timing(self, stats, value, env) ==
    update_stats(self, stats, value, SC_TIMING, One, env)

StatsdClient_gauge(self, stats, value, env) ==
    update_stats(self, stats, value, SC_GAUGE, One, env)

StatsdClient_set(self, stats, value, env) ==
    update_stats(self, stats, value, SC_SET, One, env)

\* StatsdClient.count
StatsdClient_count(self, stats, value, sample_rate, env) ==
    update_stats(self, stats, value, SC_COUNT, sample_rate, env)

\* StatsdClient.increment / decrement
StatsdClient_increment(self, stats, sample_rate, env) ==
    StatsdClient_count(self, stats, IntV(1), sample_rate, env)

StatsdClient_decrement(self, stats, sample_rate, env) ==
    StatsdClient_count(self, stats, IntV(-1), sample_rate, env)

(***************************************************************************)
(* A wrapped function: its __name__, what it does with its argument        *)
(* ("ok": returns "ok", "echo": returns the argument, "raise": raises      *)
(* FuncError) and how long it runs, in ms.                                 *)
(***************************************************************************)
Func(name, does, dur) == [name |-> name, does |-> does, dur |-> dur]

\* func(*args, **kwargs)
Invoke(func, arg) ==
    IF func.does = "raise" THEN Raised("FuncError", <<CallEv(func, arg)>>)
    ELSE Returned(IF func.does = "echo" THEN arg ELSE "ok",
                  <<CallEv(func, arg)>>)

\* statsdclient.timeit(func, *args): (res, seconds); here the duration in
\* ms, so that seconds * 1000.0 is the float FloatV(ms)
timeit(func, arg, env) ==
    LET start_time == env.clock
        r          == Invoke(func, arg)
        timing     == (start_time + func.dur) - start_time
    IN  [raised |-> r.raised, error |-> r.error, res |-> r.ret,
         ms |-> timing, events |-> r.events]

\* mutant of StatsdClient_timeit: the timing is sent in a finally block
StatsdClient_timeit_finally(self, metric, func, arg, env) ==
    LET t == timeit(func, arg, env)
        e == StatsdClient_timing(self, Str(metric), FloatV(t.ms), env)
    IN  IF t.raised THEN Raised(t.error, t.events \o e.events)
        ELSE IF e.raised THEN Raised(e.error, t.events \o e.events)
        ELSE Returned(t.res, t.events \o e.events)

\* StatsdClient.timeit
StatsdClient_timeit(self, metric, func, arg, env) ==
    LET t == timeit(func, arg, env)
    IN  IF t.raised THEN Raised(t.error, t.events)
        ELSE LET e == StatsdClient_timing(self, Str(metric), FloatV(t.ms), env)
             IN  IF e.raised THEN Raised(e.error, t.events \o e.events)
                 ELSE Returned(t.res, t.events \o e.events)

(***************************************************************************)
(* metrics.py                                                              *)
(***************************************************************************)
DEFAULT_HOST == "localhost"
DEFAULT_PORT == 8125

\* NullClient()
NullClient == [kind |-> "null", addr |-> NoAddr, prefix |-> ""]

\* NullClient.timeit
NullClient_timeit(metric, func, arg) == Invoke(func, arg)

\* NullClient.count / timing / gauge
NullClient_count  == Returned(NoneV, <<>>)
NullClient_timing == Returned(NoneV, <<>>)
NullClient_gauge  == Returned(NoneV, <<>>)

\* metrics.timing / gauge / count / timeit: c is the value of _client
metrics_timing(c, metric, value, env) ==
    IF c.kind = "null" THEN NullClient_timing
    ELSE StatsdClient_timing(c, metric, value, env)

metrics_gauge(c, metric, value, env) ==
    IF c.kind = "null" THEN NullClient_gauge
    ELSE StatsdClient_gauge(c, metric, value, env)

metrics_count(c, metric, value, sample_rate, env) ==
    IF c.kind = "null" THEN NullClient_count
    ELSE StatsdClient_count(c, metric, value, sample_rate, env)

metrics_timeit(c, metric, func, arg, env) ==
    IF c.kind = "null" THEN NullClient_timeit(metric, func, arg)
    ELSE StatsdClient_timeit(c, metric, func, arg, env)

\* timed(prefix)(func): the metric name the decorator computes
timed_metricname(prefix, func) ==
    IF Truthy(prefix) THEN prefix \o "." \o func.name ELSE func.name

\* time_methods: the prefix it hands to timed()
time_methods_prefix(prefix) ==
    IF Truthy(prefix) THEN prefix \o "." ELSE ""

(***************************************************************************)
(* The inputs the calls are made with                                      *)
(***************************************************************************)
SeqsUpTo(S, n) == UNION {[1..k -> S] : k \in 0..n}

KeyNames == {"mem", "cpu", "net"}
KeyArgs  == {Str(k) : k \in KeyNames} \cup {List(ks) : ks \in SeqsUpTo(KeyNames, MaxKeys)}
Values   == {IntV(512), IntV(-2), StrV("2701")}
Types    == {SC_TIMING, SC_COUNT, SC_GAUGE, SC_SET, "T"}
Rates    == {-One, 0, 1, One \div 2, One - 1, One, 2 * One}
Draws    == {0, 1, One \div 2, One - 1}
Nets     == {Net(TRUE, 0)} \cup {Net(FALSE, n) : n \in 0..MaxKeys}
Clocks   == {0, 1500}
Hosts    == {DEFAULT_HOST, "statsd"}
Ports    == {DEFAULT_PORT, 9125}
Prefixes == {"", "app"}
Funcs    == {Func("m1", "ok", 100), Func("m2", "echo", 0), Func("boom", "raise", 5)}
FuncArgs == {"x", "y"}
\* the prefix argument of timed() and time_methods()
TimedPrefixes == {NoneV, "", "db"}
\* the dicts handed to sample() and send() directly
WireValues == {"5|c", "7"}
Dicts == {d \in SeqsUpTo(KeyNames \X WireValues, MaxKeys) : IsDict(d)}

(***************************************************************************)
(* State                                                                   *)
(***************************************************************************)
VARIABLES
    client,    \* a StatsdClient the application built itself
    ctor,      \* history: the arguments `client` was built with
    _client,   \* metrics._client
    cfg,       \* history: the arguments of the latest configure(), and
               \* whether no resetclient() followed it
    obj,       \* for each method of one object of class C: whether
               \* time_methods patched it, with which prefix argument, and
               \* the metric name its wrapper holds
    pc,        \* "idle", or "done" when a call has just completed
    call,      \* the completed call: its operation and arguments
    eff,       \* the completed call's effect
    data       \* the dict a completed format() or sample() returned

vars == <<client, ctor, _client, cfg, obj, pc, call, eff, data>>

Methods == {"m1", "m2"}
\* class C of the doctest of time_methods: m1 returns 'ok', m2 its argument
MethodFunc(m) == IF m = "m1" THEN Func("m1", "ok", 100) ELSE Func("m2", "echo", 0)

Unpatched == [patched |-> FALSE, prefix |-> NoneV, metric |-> ""]

NoEff  == Returned(NoneV, <<>>)
NoCall == [op |-> "", keys |-> Str(""), value |-> IntV(0), type |-> "",
           prefix |-> "", rate |-> One, func |-> Func("", "ok", 0), arg |-> "",
           metric |-> "", env |-> Env(0, NetOK, 0), data |-> <<>>, addr |-> NoAddr,
           patched |-> FALSE]

Init ==
    /\ client = StatsdClient(DEFAULT_HOST, DEFAULT_PORT, "")
    /\ ctor = [host |-> DEFAULT_HOST, port |-> DEFAULT_PORT, prefix |-> ""]
    /\ _client = NullClient
    /\ cfg = [set |-> FALSE, host |-> DEFAULT_HOST, port |-> DEFAULT_PORT, prefix |-> ""]
    /\ obj = [m \in Methods |-> Unpatched]
    /\ pc = "idle"
    /\ call = NoCall
    /\ eff = NoEff
    /\ data = <<>>

\* a call, made when pc = "idle", completes: what it was and what it did
\* are recorded
Done(c, e, d) ==
    /\ pc' = "done"
    /\ call' = c
    /\ eff' = e
    /\ data' = d

\* the caller goes on: the record of the completed call is dropped
Return ==
    /\ pc = "done"
    /\ pc' = "idle"
    /\ call' = NoCall
    /\ eff' = NoEff
    /\ data' = <<>>
    /\ UNCHANGED <<client, ctor, _client, cfg, obj>>

(***************************************************************************)
(* The static functions of StatsdClient, called directly                   *)
(***************************************************************************)
CallFormat ==
    /\ pc = "idle"
    /\ \E keys \in KeyArgs, value \in Values, type \in Types, prefix \in {"", "app.", "pfx."} :
        /\ Done([NoCall EXCEPT !.op = "format", !.keys = keys, !.value = value,
                               !.type = type, !.prefix = prefix],
                NoEff, format(keys, value, type, prefix))
        /\ UNCHANGED <<client, ctor, _client, cfg, obj>>

CallSample ==
    /\ pc = "idle"
    /\ \E d \in Dicts, rate \in Rates, draw \in Draws :
        /\ Done([NoCall EXCEPT !.op = "sample", !.data = d, !.rate = rate,
                               !.env = Env(draw, NetOK, 0)],
                NoEff, sample(d, rate, draw))
        /\ UNCHANGED <<client, ctor, _client, cfg, obj>>

CallSend ==
    /\ pc = "idle"
    /\ \E d \in Dicts, host \in Hosts, port \in Ports, net \in Nets :
        /\ Done([NoCall EXCEPT !.op = "send", !.data = d, !.addr = <<host, port>>,
                               !.env = Env(0, net, 0)],
                send(d, <<host, port>>, net), <<>>)
        /\ UNCHANGED <<client, ctor, _client, cfg, obj>>

(***************************************************************************)
(* A StatsdClient of the application's own                                 *)
(***************************************************************************)
Construct ==
    /\ pc = "idle"
    /\ \E host \in Hosts, port \in Ports, prefix \in Prefixes :
        /\ client' = StatsdClient(host, port, prefix)
        /\ ctor' = [host |-> host, port |-> port, prefix |-> prefix]
        /\ UNCHANGED <<_client, cfg, obj, pc, call, eff, data>>

CallTiming ==
    /\ pc = "idle"
    /\ \E keys \in KeyArgs, value \in Values, net \in Nets :
        /\ Done([NoCall EXCEPT !.op = "timing", !.keys = keys, !.value = value,
                               !.env = Env(0, net, 0)],
                StatsdClient_timing(client, keys, value, Env(0, net, 0)), <<>>)
        /\ UNCHANGED <<client, ctor, _client, cfg, obj>>

CallGauge ==
    /\ pc = "idle"
    /\ \E keys \in KeyArgs, value \in Values, net \in Nets :
        /\ Done([NoCall EXCEPT !.op = "gauge", !.keys = keys, !.value = value,
                               !.env = Env(0, net, 0)],
                StatsdClient_gauge(client, keys, value, Env(0, net, 0)), <<>>)
        /\ UNCHANGED <<client, ctor, _client, cfg, obj>>

CallSet ==
    /\ pc = "idle"
    /\ \E keys \in KeyArgs, value \in Values, net \in Nets :
        /\ Done([NoCall EXCEPT !.op = "set", !.keys = keys, !.value = value,
                               !.env = Env(0, net, 0)],
                StatsdClient_set(client, keys, value, Env(0, net, 0)), <<>>)
        /\ UNCHANGED <<client, ctor, _client, cfg, obj>>

CallCount ==
    /\ pc = "idle"
    /\ \E keys \in KeyArgs, value \in Values, rate \in Rates, draw \in Draws, net \in Nets :
        /\ Done([NoCall EXCEPT !.op = "count", !.keys = keys, !.value = value,
                               !.rate = rate, !.env = Env(draw, net, 0)],
                StatsdClient_count(client, keys, value, rate, Env(draw, net, 0)), <<>>)
        /\ UNCHANGED <<client, ctor, _client, cfg, obj>>

CallIncrement ==
    /\ pc = "idle"
    /\ \E keys \in KeyArgs, rate \in Rates, draw \in Draws, net \in Nets :
        /\ Done([NoCall EXCEPT !.op = "increment", !.keys = keys, !.rate = rate,
                               !.env = Env(draw, net, 0)],
                StatsdClient_increment(client, keys, rate, Env(draw, net, 0)), <<>>)
        /\ UNCHANGED <<client, ctor, _client, cfg, obj>>

CallDecrement ==
    /\ pc = "idle"
    /\ \E keys \in KeyArgs, rate \in Rates, draw \in Draws, net \in Nets :
        /\ Done([NoCall EXCEPT !.op = "decrement", !.keys = keys, !.rate = rate,
                               !.env = Env(draw, net, 0)],
                StatsdClient_decrement(client, keys, rate, Env(draw, net, 0)), <<>>)
        /\ UNCHANGED <<client, ctor, _client, cfg, obj>>

CallTimeit ==
    /\ pc = "idle"
    /\ \E metric \in KeyNames, func \in Funcs, arg \in FuncArgs, net \in Nets, clock \in Clocks :
        /\ Done([NoCall EXCEPT !.op = "timeit", !.metric = metric, !.func = func,
                               !.arg = arg, !.env = Env(0, net, clock)],
                StatsdClient_timeit(client, metric, func, arg, Env(0, net, clock)), <<>>)
        /\ UNCHANGED <<client, ctor, _client, cfg, obj>>

(***************************************************************************)
(* metrics.py: the process-wide client                                     *)
(***************************************************************************)
configure ==
    /\ pc = "idle"
    /\ \E host \in Hosts, port \in Ports, prefix \in Prefixes :
        /\ _client' = StatsdClient(host, port, prefix)
        /\ cfg' = [set |-> TRUE, host |-> host, port |-> port, prefix |-> prefix]
        /\ UNCHANGED <<client, ctor, obj, pc, call, eff, data>>

\* mutant of resetclient: the global statement is missing, _client stays
resetclient_local ==
    /\ pc = "idle"
    /\ cfg' = [cfg EXCEPT !.set = FALSE]
    /\ UNCHANGED <<client, ctor, _client, obj, pc, call, eff, data>>

resetclient ==
    /\ pc = "idle"
    /\ _client' = NullClient
    /\ cfg' = [cfg EXCEPT !.set = FALSE]
    /\ UNCHANGED <<client, ctor, obj, pc, call, eff, data>>

FacadeTiming ==
    /\ pc = "idle"
    /\ \E keys \in KeyArgs, value \in Values, net \in Nets :
        /\ Done([NoCall EXCEPT !.op = "metrics.timing", !.keys = keys, !.value = value,
                               !.env = Env(0, net, 0)],
                metrics_timing(_client, keys, value, Env(0, net, 0)), <<>>)
        /\ UNCHANGED <<client, ctor, _client, cfg, obj>>

FacadeGauge ==
    /\ pc = "idle"
    /\ \E keys \in KeyArgs, value \in Values, net \in Nets :
        /\ Done([NoCall EXCEPT !.op = "metrics.gauge", !.keys = keys, !.value = value,
                               !.env = Env(0, net, 0)],
                metrics_gauge(_client, keys, value, Env(0, net, 0)), <<>>)
        /\ UNCHANGED <<client, ctor, _client, cfg, obj>>

FacadeCount ==
    /\ pc = "idle"
    /\ \E keys \in KeyArgs, value \in Values, rate \in Rates, draw \in Draws, net \in Nets :
        /\ Done([NoCall EXCEPT !.op = "metrics.count", !.keys = keys, !.value = value,
                               !.rate = rate, !.env = Env(draw, net, 0)],
                metrics_count(_client, keys, value, rate, Env(draw, net, 0)), <<>>)
        /\ UNCHANGED <<client, ctor, _client, cfg, obj>>

FacadeTimeit ==
    /\ pc = "idle"
    /\ \E metric \in KeyNames, func \in Funcs, arg \in FuncArgs, net \in Nets, clock \in Clocks :
        /\ Done([NoCall EXCEPT !.op = "metrics.timeit", !.metric = metric, !.func = func,
                               !.arg = arg, !.env = Env(0, net, clock)],
                metrics_timeit(_client, metric, func, arg, Env(0, net, clock)), <<>>)
        /\ UNCHANGED <<client, ctor, _client, cfg, obj>>

(***************************************************************************)
(* metrics.py: timed and time_methods                                      *)
(***************************************************************************)
\* a call of a function decorated with @timed(prefix)
CallTimed ==
    /\ pc = "idle"
    /\ \E prefix \in TimedPrefixes, func \in Funcs, arg \in FuncArgs, net \in Nets :
        LET metricname == timed_metricname(prefix, func)
        IN  /\ Done([NoCall EXCEPT !.op = "timed", !.prefix = prefix, !.func = func,
                                   !.metric = metricname, !.arg = arg,
                                   !.env = Env(0, net, 0)],
                    metrics_timeit(_client, metricname, func, arg, Env(0, net, 0)), <<>>)
            /\ UNCHANGED <<client, ctor, _client, cfg, obj>>

\* c = C()
NewObject ==
    /\ pc = "idle"
    /\ obj' = [m \in Methods |-> Unpatched]
    /\ UNCHANGED <<client, ctor, _client, cfg, pc, call, eff, data>>

\* time_methods(obj, methods, prefix), on methods not patched before:
\* getattr gives the bound method, whose __name__ is the method's name
time_methods ==
    /\ pc = "idle"
    /\ \E methods \in SeqsUpTo(Methods, Cardinality(Methods)), prefix \in TimedPrefixes :
        /\ methods # <<>>
        /\ \A i, j \in 1..Len(methods) : methods[i] = methods[j] => i = j
        /\ \A i \in 1..Len(methods) : ~obj[methods[i]].patched
        /\ obj' = [m \in Methods |->
                     IF \E i \in 1..Len(methods) : methods[i] = m
                     THEN [patched |-> TRUE, prefix |-> prefix,
                           metric |-> timed_metricname(time_methods_prefix(prefix),
                                                       MethodFunc(m))]
                     ELSE obj[m]]
        /\ UNCHANGED <<client, ctor, _client, cfg, pc, call, eff, data>>

\* obj.m1() or obj.m2(arg)
CallMethod ==
    /\ pc = "idle"
    /\ \E m \in Methods, arg \in FuncArgs \cup {""}, net \in Nets :
        LET c == [NoCall EXCEPT !.op = "method", !.func = MethodFunc(m), !.arg = arg,
                                !.patched = obj[m].patched, !.prefix = obj[m].prefix,
                                !.metric = obj[m].metric, !.env = Env(0, net, 0)]
        IN  /\ (m = "m1") <=> (arg = "")
            /\ Done(c,
                    IF obj[m].patched
                    THEN metrics_timeit(_client, obj[m].metric, MethodFunc(m), arg,
                                        Env(0, net, 0))
                    ELSE Invoke(MethodFunc(m), arg),
                    <<>>)
            /\ UNCHANGED <<client, ctor, _client, cfg, obj>>

(***************************************************************************)
(* Specifications                                                          *)
(***************************************************************************)
\* an application using StatsdClient: its static functions, and the
\* methods of a client of its own
NextClient ==
    \/ CallFormat \/ CallSample \/ CallSend
    \/ Construct
    \/ CallTiming \/ CallGauge \/ CallSet
    \/ CallCount \/ CallIncrement \/ CallDecrement
    \/ CallTimeit
    \/ Return
SpecClient == Init /\ [][NextClient]_vars

\* an application using the process-wide client
NextFacade ==
    \/ configure \/ resetclient
    \/ FacadeTiming \/ FacadeGauge \/ FacadeCount \/ FacadeTimeit
    \/ Return
SpecFacade == Init /\ [][NextFacade]_vars

\* an application using the decorators over the process-wide client
NextTimed ==
    \/ configure \/ resetclient
    \/ NewObject \/ time_methods
    \/ CallTimed \/ CallMethod
    \/ Return
SpecTimed == Init /\ [][NextTimed]_vars

Next == NextClient \/ NextFacade \/ NextTimed
Spec == Init /\ [][Next]_vars

(***************************************************************************)
(* What a completed call is observed to have done                          *)
(***************************************************************************)
IsSendto(ev) == ev.kind = "sendto"
IsCall(ev)   == ev.kind = "call"
\* the datagrams the call handed to sendto, in order
Sent(e) == SelectSeq(e.events, IsSendto)
\* the calls of the wrapped function, in order
Calls(e) == SelectSeq(e.events, IsCall)
Range(q) == {q[i] : i \in 1..Len(q)}
NoRepeat(q) == \A i, j \in 1..Len(q) : q[i] = q[j] => i = j
\* the distinct keys of a keys argument
KeySet(keys) == IF keys.isstr THEN {keys.str} ELSE Range(keys.items)

TypedOps == {"timing", "gauge", "set", "count", "increment", "decrement"}
RatedOps == {"count", "increment", "decrement"}

Suffix(op) ==
    CASE op = "timing" -> "ms"
      [] op = "gauge"  -> "g"
      [] op = "set"    -> "s"
      [] OTHER         -> "c"

ValueText(c) ==
    CASE c.op = "increment" -> "1"
      [] c.op = "decrement" -> "-1"
      [] OTHER              -> PyStr(c.value)

\* the datagram the claims expect for one key of a typed operation of a
\* client built with (host, port, prefix)
Datagram(host, port, prefix, key, text) ==
    [kind |-> "sendto",
     text |-> (IF prefix = "" THEN key ELSE prefix \o "." \o key) \o ":" \o text,
     addr |-> <<host, port>>]

(***************************************************************************)
(* C1: a typed operation of a StatsdClient built with (h, p, P), called at *)
(* sample rate 1, hands to sendto only datagrams for (h, p) with payload   *)
(* P.key:value|suffix (key:value|suffix when P is empty), at most one per  *)
(* distinct key, and does nothing else; when it returns, there is exactly  *)
(* one datagram per distinct key.                                          *)
(***************************************************************************)
C1_OneDatagramPerKey ==
    (pc = "done" /\ call.op \in TypedOps /\ call.rate = One) =>
        LET want == {Datagram(ctor.host, ctor.port, ctor.prefix, k,
                              ValueText(call) \o "|" \o Suffix(call.op)) :
                        k \in KeySet(call.keys)}
        IN  /\ eff.events = Sent(eff)
            /\ Range(Sent(eff)) \subseteq want
            /\ NoRepeat(Sent(eff))
            /\ ~eff.raised => Range(Sent(eff)) = want

C1_Witness ==
    /\ pc = "done" /\ call.op = "gauge" /\ ~eff.raised
    /\ ctor = [host |-> "statsd", port |-> 9125, prefix |-> "app"]
    /\ call.keys = Str("mem") /\ call.value = IntV(512)
    /\ eff.events = <<SendtoEv("app.mem:512|g", <<"statsd", 9125>>)>>

(***************************************************************************)
(* C2: format(keys, value, type, prefix) returns a mapping with exactly    *)
(* one entry per distinct prefix + key, a bare string counting as one key, *)
(* every entry mapped to value|type.                                       *)
(***************************************************************************)
C2_FormatEntries ==
    (pc = "done" /\ call.op = "format") =>
        /\ IsDict(data)
        /\ DictKeys(data) = {call.prefix \o k : k \in KeySet(call.keys)}
        /\ \A i \in 1..Len(data) : data[i][2] = PyStr(call.value) \o "|" \o call.type

\* two input keys that give the same prefixed key: one entry
C2_Witness ==
    /\ pc = "done" /\ call.op = "format"
    /\ call.keys = List(<<"mem", "mem">>)
    /\ data = <<<<"pfx.mem", "2701|T">>>>

(***************************************************************************)
(* C3: sample(data, rate) with rate <= 0 returns an empty mapping whatever *)
(* random() returns, and a counting operation called with rate <= 0 sends  *)
(* nothing.                                                                *)
(***************************************************************************)
C3_NothingAtRateZeroOrLess ==
    /\ (pc = "done" /\ call.op = "sample" /\ call.rate <= 0) => data = <<>>
    /\ (pc = "done" /\ call.op \in RatedOps /\ call.rate <= 0) => Sent(eff) = <<>>

(***************************************************************************)
(* C4: sample(data, rate) with 0 < rate < 1 is all or nothing: with a draw *)
(* <= rate the result has the keys of data, each value followed by "|@"    *)
(* and the rate; with a draw > rate it is empty.  The datagrams of a       *)
(* counting operation called with such a rate are decided the same way.    *)
(***************************************************************************)
C4_AllOrNothing ==
    /\ (pc = "done" /\ call.op = "sample" /\ 0 < call.rate /\ call.rate < One) =>
          IF call.env.draw <= call.rate
          THEN /\ IsDict(data)
               /\ DictKeys(data) = DictKeys(call.data)
               /\ \A k \in DictKeys(data) :
                     DictGet(data, k) =
                        DictGet(call.data, k) \o "|@" \o RateStr(call.rate)
          ELSE data = <<>>
    /\ (pc = "done" /\ call.op \in RatedOps /\ 0 < call.rate /\ call.rate < One) =>
          LET want == {Datagram(ctor.host, ctor.port, ctor.prefix, k,
                                ValueText(call) \o "|c|@" \o RateStr(call.rate)) :
                          k \in KeySet(call.keys)}
          IN  /\ Range(Sent(eff)) \subseteq want
              /\ call.env.draw > call.rate => eff.events = <<>>
              /\ (call.env.draw <= call.rate /\ ~eff.raised) => Range(Sent(eff)) = want

C4_Witness ==
    /\ pc = "done" /\ call.op = "sample"
    /\ call.rate = One \div 2 /\ call.env.draw = One \div 2
    /\ call.data = <<<<"mem", "5|c">>, <<"cpu", "7">>>>
    /\ data = <<<<"mem", "5|c|@0.5">>, <<"cpu", "7|@0.5">>>>

(***************************************************************************)
(* C5: sample(data, rate) with rate >= 1 returns data as it is, whatever   *)
(* random() would return.                                                  *)
(***************************************************************************)
C5_Unchanged ==
    (pc = "done" /\ call.op = "sample" /\ call.rate >= One) => data = call.data

C5_Witness ==
    /\ pc = "done" /\ call.op = "sample"
    /\ call.rate = One /\ call.env.draw = 0
    /\ call.data = <<<<"mem", "5|c">>, <<"cpu", "7">>>>
    /\ data = call.data

(***************************************************************************)
(* C6: a facade call made while no configure() is in force (none yet, or a *)
(* resetclient() since) hands nothing to sendto and raises nothing of its  *)
(* own, and timeit calls func exactly once and returns its result; a       *)
(* facade call made while a configure() is in force does what the same     *)
(* call does on a StatsdClient built from that configure()'s arguments.    *)
(***************************************************************************)
FacadeOps == {"metrics.timing", "metrics.gauge", "metrics.count", "metrics.timeit"}

\* the result of func(arg), as the caller of func would see it
FuncResult(func, arg) == IF func.does = "echo" THEN arg ELSE "ok"

\* the call c made directly on the StatsdClient cl
Direct(c, cl) ==
    CASE c.op = "metrics.timing" -> StatsdClient_timing(cl, c.keys, c.value, c.env)
      [] c.op = "metrics.gauge"  -> StatsdClient_gauge(cl, c.keys, c.value, c.env)
      [] c.op = "metrics.count"  -> StatsdClient_count(cl, c.keys, c.value, c.rate, c.env)
      [] OTHER -> StatsdClient_timeit(cl, c.metric, c.func, c.arg, c.env)

C6_NoOpUntilConfigured ==
    (pc = "done" /\ call.op \in FacadeOps) =>
        IF ~cfg.set
        THEN /\ Sent(eff) = <<>>
             /\ call.op # "metrics.timeit" => eff = Returned(NoneV, <<>>)
             /\ call.op = "metrics.timeit" =>
                   /\ eff.events = <<CallEv(call.func, call.arg)>>
                   /\ IF call.func.does = "raise"
                      THEN eff.raised /\ eff.error = "FuncError"
                      ELSE ~eff.raised /\ eff.ret = FuncResult(call.func, call.arg)
        ELSE /\ eff = Direct(call, StatsdClient(cfg.host, cfg.port, cfg.prefix))
             /\ \A i \in 1..Len(Sent(eff)) : Sent(eff)[i].addr = <<cfg.host, cfg.port>>

\* a count() after configure() and resetclient(), on a network that works
C6_Witness ==
    /\ pc = "done" /\ call.op = "metrics.count"
    /\ ~cfg.set /\ cfg.prefix = "app" /\ cfg.host = "statsd"
    /\ call.keys = List(<<"mem", "cpu">>) /\ call.rate = One
    /\ call.env.net = NetOK
    /\ eff = Returned(NoneV, <<>>)

(***************************************************************************)
(* C7: no typed operation and no timeit lets a failure of socket() or of   *)
(* sendto reach its caller: the operation returns, and timeit returns      *)
(* func's result.                                                          *)
(***************************************************************************)
C7_SendFailureContained ==
    /\ (pc = "done" /\ call.op \in TypedOps \cup {"timeit"}) =>
          ~(eff.raised /\ eff.error = "socket.error")
    /\ (pc = "done" /\ call.op = "timeit" /\ call.func.does # "raise") =>
          ~eff.raised /\ eff.ret = FuncResult(call.func, call.arg)

(***************************************************************************)
(* C8: when func returns, StatsdClient.timeit(metric, func, arg) has       *)
(* called func exactly once with arg, then handed to sendto no more than   *)
(* the one timing datagram of the prefixed metric (exactly that one when   *)
(* the network works), and returns func's result.                          *)
(***************************************************************************)
C8_TimeitReturnsResult ==
    (pc = "done" /\ call.op = "timeit" /\ call.func.does # "raise") =>
        LET dgram == Datagram(ctor.host, ctor.port, ctor.prefix, call.metric,
                              ToString(call.func.dur) \o ".0|ms")
        IN  /\ Calls(eff) = <<CallEv(call.func, call.arg)>>
            /\ Head(eff.events) = CallEv(call.func, call.arg)
            /\ Range(Sent(eff)) \subseteq {dgram}
            /\ Len(Sent(eff)) <= 1
            /\ call.env.net = NetOK => Sent(eff) = <<dgram>>
            /\ ~eff.raised
            /\ eff.ret = FuncResult(call.func, call.arg)

(***************************************************************************)
(* C9, as claimed: when func raises inside StatsdClient.timeit, the timing *)
(* datagram is still sent (the network working) and func's error reaches   *)
(* the caller.                                                             *)
(***************************************************************************)
C9_TimingSentWhenFuncRaises ==
    (pc = "done" /\ call.op = "timeit" /\ call.func.does = "raise"
        /\ call.env.net = NetOK) =>
        /\ Len(Sent(eff)) = 1
        /\ eff.raised /\ eff.error = "FuncError"

(***************************************************************************)
(* C9, amended: when func raises inside StatsdClient.timeit, func was      *)
(* called once, nothing is handed to sendto, and func's error reaches the  *)
(* caller.                                                                 *)
(***************************************************************************)
C9_NothingSentWhenFuncRaises ==
    (pc = "done" /\ call.op = "timeit" /\ call.func.does = "raise") =>
        /\ eff.events = <<CallEv(call.func, call.arg)>>
        /\ eff.raised /\ eff.error = "FuncError"

C9_Witness ==
    /\ pc = "done" /\ call.op = "timeit" /\ call.func.does = "raise"
    /\ call.env.net = NetOK /\ ctor.prefix = "app"
    /\ eff = Raised("FuncError", <<CallEv(call.func, call.arg)>>)

(***************************************************************************)
(* C10: a method m patched by time_methods(obj, [m], p) is timed under the *)
(* name a function named m decorated with timed(prefix=p) is timed under,  *)
(* p.m, or m when p is empty or None; it does what a call of that          *)
(* decorated function does, and returns the original method's result.      *)
(***************************************************************************)
C10_PatchedNamedAsDecorated ==
    (pc = "done" /\ call.op = "method" /\ call.patched) =>
        /\ call.metric = timed_metricname(call.prefix, call.func)
        /\ call.metric = IF Truthy(call.prefix)
                         THEN call.prefix \o "." \o call.func.name
                         ELSE call.func.name
        /\ eff = metrics_timeit(_client, timed_metricname(call.prefix, call.func),
                                call.func, call.arg, call.env)
        /\ ~eff.raised => eff.ret = FuncResult(call.func, call.arg)

=============================================================================
